---- MODULE Spec2Model ----
(***************************************************************************)
(* A model of the AoC2023 puzzle solvers.                                  *)
(*                                                                         *)
(*   Day-3 map-reader : Number::border, Number::value, parse_symbols,      *)
(*                      parse_numbers                                       *)
(*   Day-1 trebuchet  : replace_strings                                     *)
(*                                                                         *)
(* The solvers are independent programs, so each gets a specification of   *)
(* its own (SpecBorder, SpecValue, SpecGrid, SpecDay1) over its own        *)
(* variables; the variables of the other programs stay at their idle       *)
(* values.                                                                 *)
(***************************************************************************)
EXTENDS Integers, Sequences, FiniteSets, TLC

VARIABLES
    \* ---- Day-3: one Number and a call of border() or value() on it
    number,           \* Number(Vec<Numeral>)
    overflow_checks,  \* build profile: TRUE = debug (arithmetic overflow panics),
                      \*                FALSE = release (arithmetic wraps)
    npc,              \* "idle" | "border" | "border_done" | "value" | "value_done" | "panic"
    ni,               \* the index i of enumerate()
    border,           \* the local HashSet<Position> of border()
    value,            \* the local u32 of value()
    \* ---- Day-3: parse_symbols / parse_numbers over one input
    input,            \* Vec<String>: the rows
    gpc,              \* "idle" | "symbols" | "symbols_done" | "numbers" | "numbers_done"
    row,              \* row index of the outer enumerate()
    col,              \* column index of the inner enumerate()
    symbols,          \* Vec<Position> of parse_symbols
    current_number,   \* Vec<Numeral>, the pending buffer of parse_numbers
    numbers,          \* Vec<Number> of parse_numbers
    \* ---- Day-1: replace_strings, called twice on one line
    line,             \* &str, a sequence of chars
    i,                \* the cursor
    result,           \* the String being built
    rpc,              \* "idle" | "loop" | "done" | "panic"
    call,             \* 1 or 2: which call of replace_strings is running
    first,            \* the outcome of the first call, once it has ended
    \* ---- Day-1: parse_data over the lines read
    data,             \* Vec<String>: the lines
    dli,              \* the index of the line the for_each is at
    pd_result,        \* Vec<usize>, the result of parse_data
    dpc,              \* "idle" | "iter" | "replace" | "done" | "panic"
    \* ---- Day-2: parse_data over the lines read
    d2input,          \* Vec<String>: the lines
    d2li,             \* the index of the line the for_each is at
    d2pc,             \* "idle" | "iter" | "done" | "panic"
    games,            \* Vec<Game>: the result of parse_data, main's data
    \* ---- Day-2: main's two folds, is_feasible and get_power
    mpc,              \* "idle" | "feasible" | "power" | "done"
    gi,               \* the index of the game a fold is at
    ri,               \* the index of the round inside the game
    ei,               \* the index of the entry inside the round
    total,            \* the accumulator of the first fold
    total_power,      \* the accumulator of the second fold
    tally,            \* the locals blue, green, red of a round
    maxima,           \* the locals blue_max, green_max, red_max of get_power
    verdicts,         \* what is_feasible returned, game by game
    powers            \* what get_power returned, game by game

numVars  == <<number, overflow_checks, npc, ni, border, value>>
gridVars == <<input, gpc, row, col, symbols, current_number, numbers>>
day1Vars == <<line, i, result, rpc, call, first>>
pdVars   == <<data, dli, pd_result, dpc>>
d2pVars  == <<d2input, d2li, d2pc>>
mainVars == <<games, mpc, gi, ri, ei, total, total_power, tally, maxima,
              verdicts, powers>>
vars     == <<number, overflow_checks, npc, ni, border, value,
              input, gpc, row, col, symbols, current_number, numbers,
              line, i, result, rpc, call, first,
              data, dli, pd_result, dpc,
              d2input, d2li, d2pc,
              games, mpc, gi, ri, ei, total, total_power, tally, maxima,
              verdicts, powers>>

(***************************************************************************)
(* Bounds of the model.                                                    *)
(***************************************************************************)
MaxRow       == 2   \* border(): the Number's row is in 0..MaxRow
MaxCol       == 3   \* border(): the Number's first column is in 0..MaxCol
MaxBorderLen == 5   \* border(): the Number has 1..MaxBorderLen Numerals
MaxFullLen   == 2   \* value(): every digit sequence of 1..MaxFullLen digits
MaxHeadLen   == 2   \* value(): long inputs start with 1..MaxHeadLen digits of LongDigits
MaxInput     == 4   \* parse_*: the input text has 0..MaxInput characters
MaxTokens    == 2   \* replace_strings: a line is 0..MaxTokens Tokens long
MaxLines     == 2   \* Day-2 parse_data: the input has 0..MaxLines lines
MaxEntries   == 3   \* Day-2 main: a game of the family has 1..MaxEntries entries
MaxGames     == 2   \* Day-2 main: a list of one-round games has 0..MaxGames games
MaxData      == 2   \* Day-1 parse_data: the input has 0..MaxData lines
MaxFill      == 8   \* value(): and go on with 0..MaxFill copies of one digit of FillDigits

\* The cell of the first Numeral in tests::test_border and tests::test_value.
TestRow == 2
TestCol == 3

RECURSIVE SeqsUpTo(_, _)
\* All sequences over S of length 0..n.
SeqsUpTo(S, n) ==
    IF n = 0 THEN {<< >>}
    ELSE LET shorter == SeqsUpTo(S, n - 1)
         IN  shorter \cup {Append(s, x) : s \in {t \in shorter : Len(t) = n - 1}, x \in S}

(***************************************************************************)
(* Day-3 data model.                                                       *)
(***************************************************************************)
\* struct Position { row: usize, col: usize }
Position(r, c) == [row |-> r, col |-> c]

\* struct Numeral { position: Position, value: u32 }
Numeral(r, c, d) == [position |-> Position(r, c), value |-> d]

\* A Number as parse_numbers builds it: the digits ds on row r, at the columns
\* c0, c0+1, ...
NumberAt(r, c0, ds) == [k \in 1..Len(ds) |-> Numeral(r, c0 + k - 1, ds[k])]

\* usize::MAX = 2^64 - 1, written as its residue modulo 2^64 in -2^63..2^63-1
\* (TLC's integers are 32 bits wide).  It is what 0 - 1 wraps to in a release
\* build.
USIZE_MAX == -1

\* x - 1 on a usize.  It overflows when x = 0: a panic in a debug build, a wrap
\* to usize::MAX in a release build.
SubOverflows(x) == x = 0
WrappingSub1(x) == IF x = 0 THEN USIZE_MAX ELSE x - 1

(***************************************************************************)
(* Number::border                                                          *)
(***************************************************************************)
\* i == 0: the five cells inserted for the first numeral.
FirstNeighbors(p) ==
    { Position(WrappingSub1(p.row), p.col),                 \* above
      Position(p.row + 1, p.col),                           \* below
      Position(WrappingSub1(p.row), WrappingSub1(p.col)),   \* diagonally up
      Position(p.row + 1, WrappingSub1(p.col)),             \* diagonally down
      Position(p.row, WrappingSub1(p.col)) }                \* to the left

\* The last branch as a copy of the first one (the left-hand cells again).
LastNeighborsAsFirst(p) == FirstNeighbors(p)

\* i == len - 1 (and i /= 0): the five cells inserted for the last numeral.
LastNeighbors(p) ==
    { Position(WrappingSub1(p.row), p.col),                 \* above
      Position(p.row + 1, p.col),                           \* below
      Position(WrappingSub1(p.row), p.col + 1),             \* diagonally up and right
      Position(p.row + 1, p.col + 1),                       \* diagonally down and right
      Position(p.row, p.col + 1) }                          \* to the right

\* otherwise: the two cells inserted for a middle numeral.
MiddleNeighbors(p) ==
    { Position(WrappingSub1(p.row), p.col),
      Position(p.row + 1, p.col) }

\* The first branch's test with the row alone.
FirstOverflowsRowOnly(p) == SubOverflows(p.row)

\* Whether the subtractions of a branch overflow.
FirstOverflows(p)  == SubOverflows(p.row) \/ SubOverflows(p.col)
LastOverflows(p)   == SubOverflows(p.row)
MiddleOverflows(p) == SubOverflows(p.row)

\* The call number.border(): let mut border = HashSet::new().
CallBorder ==
    /\ npc = "idle"
    /\ npc' = "border"
    /\ ni' = 0
    /\ border' = {}
    /\ UNCHANGED <<number, overflow_checks, value>>

\* One iteration of the for_each, with the branch's cells and overflow test.
BorderInsert(cells, overflows) ==
    /\ IF overflows /\ overflow_checks
       THEN /\ npc' = "panic"
            /\ border' = {}
            /\ ni' = ni
       ELSE /\ border' = border \cup cells
            /\ ni' = ni + 1
            /\ npc' = npc
    /\ UNCHANGED <<number, overflow_checks, value>>

BorderFirst ==
    /\ npc = "border"
    /\ ni < Len(number)
    /\ ni = 0
    /\ BorderInsert(FirstNeighbors(number[ni + 1].position),
                    FirstOverflows(number[ni + 1].position))

BorderLast ==
    /\ npc = "border"
    /\ ni < Len(number)
    /\ ni /= 0
    /\ ni = Len(number) - 1
    /\ BorderInsert(LastNeighbors(number[ni + 1].position),
                    LastOverflows(number[ni + 1].position))

BorderMiddle ==
    /\ npc = "border"
    /\ ni < Len(number)
    /\ ni /= 0
    /\ ni /= Len(number) - 1
    /\ BorderInsert(MiddleNeighbors(number[ni + 1].position),
                    MiddleOverflows(number[ni + 1].position))

\* The iterator is exhausted: border is returned.
BorderReturn ==
    /\ npc = "border"
    /\ ni = Len(number)
    /\ npc' = "border_done"
    /\ UNCHANGED <<number, overflow_checks, ni, border, value>>

(***************************************************************************)
(* u32 arithmetic.  A u32 is written as two 16-bit limbs, hi * 2^16 + lo   *)
(* (TLC's integers are 32 bits wide, signed); every operation returns the  *)
(* wrapped result v and whether the true result overflowed u32.            *)
(***************************************************************************)
Limb == 65536

U32(n) == [hi |-> n \div Limb, lo |-> n % Limb]

\* x * m for a u32 x and a small factor m (m <= 10).
MulSmallU32(x, m) ==
    LET lo == x.lo * m
        hi == x.hi * m + (lo \div Limb)
    IN  [v |-> [hi |-> hi % Limb, lo |-> lo % Limb], ovf |-> hi >= Limb]

\* x + y for two u32.
AddU32(x, y) ==
    LET lo == x.lo + y.lo
        hi == x.hi + y.hi + (lo \div Limb)
    IN  [v |-> [hi |-> hi % Limb, lo |-> lo % Limb], ovf |-> hi >= Limb]

RECURSIVE Pow10U32(_)
\* 10u32.pow(e): the wrapped power, and whether 10^e overflows u32.
Pow10U32(e) ==
    IF e = 0 THEN [v |-> U32(1), ovf |-> FALSE]
    ELSE LET p == Pow10U32(e - 1)
             m == MulSmallU32(p.v, 10)
         IN  [v |-> m.v, ovf |-> p.ovf \/ m.ovf]

(***************************************************************************)
(* Number::value                                                           *)
(***************************************************************************)
\* The exponent of the numeral at index idx: (self.0.len() - i - 1) as u32.
ExponentOffByOne(len, idx) == len - idx
Exponent(len, idx) == len - idx - 1

\* numeral.value * 10u32.pow(exponent)
Term(numeral, len, idx) ==
    LET p == Pow10U32(Exponent(len, idx))
        m == MulSmallU32(p.v, numeral.value)
    IN  [v |-> m.v, ovf |-> p.ovf \/ m.ovf]

\* The call number.value(): let mut value = 0.
CallValue ==
    /\ npc = "idle"
    /\ npc' = "value"
    /\ ni' = 0
    /\ value' = U32(0)
    /\ UNCHANGED <<number, overflow_checks, border>>

\* One iteration of the for_each: value += numeral.value * 10u32.pow(...).
ValueAdd ==
    /\ npc = "value"
    /\ ni < Len(number)
    /\ LET t == Term(number[ni + 1], Len(number), ni)
           s == AddU32(value, t.v)
       IN  IF (t.ovf \/ s.ovf) /\ overflow_checks
           THEN /\ npc' = "panic"
                /\ value' = value
                /\ ni' = ni
           ELSE /\ value' = s.v
                /\ ni' = ni + 1
                /\ npc' = npc
    /\ UNCHANGED <<number, overflow_checks, border>>

\* The iterator is exhausted: value is returned.
ValueReturn ==
    /\ npc = "value"
    /\ ni = Len(number)
    /\ npc' = "value_done"
    /\ UNCHANGED <<number, overflow_checks, ni, border, value>>

(***************************************************************************)
(* Day-3 read_input: the rows of the input text.                           *)
(***************************************************************************)
\* The index of the first "\n" of text, 0 when there is none.
FirstNewline(text) ==
    IF \E k \in 1..Len(text) : text[k] = "\n"
    THEN CHOOSE k \in 1..Len(text) :
             text[k] = "\n" /\ \A m \in 1..(k - 1) : text[m] /= "\n"
    ELSE 0

RECURSIVE Lines(_)
\* reader.lines(): the text cut at each "\n"; a last line needs no "\n", and
\* nothing follows a final "\n".
Lines(text) ==
    IF text = << >> THEN << >>
    ELSE LET k == FirstNewline(text)
         IN  IF k = 0 THEN <<text>>
             ELSE <<SubSeq(text, 1, k - 1)>> \o Lines(SubSeq(text, k + 1, Len(text)))

(***************************************************************************)
(* Day-3 parse_symbols                                                     *)
(***************************************************************************)
\* The scan is at a character: row and col index one of the input.
AtChar == row < Len(input) /\ col < Len(input[row + 1])
\* The inner iterator of the current row is exhausted.
AtEndOfRow == row < Len(input) /\ col = Len(input[row + 1])
\* The character (row, col) of the input.
Ch == input[row + 1][col + 1]

\* The match arms that push as one test: '*' and '$' only.
IsMarkerTwoArms(ch) == ch \in {"*", "$"}

\* The match of parse_symbols: the arms '*', '$', '+', '#' push, _ does not.
IsMarker(ch) == ch \in {"*", "$", "+", "#"}

CallParseSymbols ==
    /\ gpc = "idle"
    /\ gpc' = "symbols"
    /\ row' = 0
    /\ col' = 0
    /\ symbols' = << >>
    /\ UNCHANGED <<input, current_number, numbers>>

\* One character of a row: a marker is pushed with its position, any other
\* character is passed over.
SymbolsChar ==
    /\ gpc = "symbols"
    /\ AtChar
    /\ symbols' = IF IsMarker(Ch) THEN Append(symbols, Position(row, col))
                  ELSE symbols
    /\ col' = col + 1
    /\ UNCHANGED <<input, gpc, row, current_number, numbers>>

SymbolsEndOfRow ==
    /\ gpc = "symbols"
    /\ AtEndOfRow
    /\ row' = row + 1
    /\ col' = 0
    /\ UNCHANGED <<input, gpc, symbols, current_number, numbers>>

\* Ok(symbols)
SymbolsReturn ==
    /\ gpc = "symbols"
    /\ row = Len(input)
    /\ gpc' = "symbols_done"
    /\ UNCHANGED <<input, row, col, symbols, current_number, numbers>>

(***************************************************************************)
(* Day-3 parse_numbers                                                     *)
(***************************************************************************)
\* ch.to_digit(10): the digit of '0'..'9', None (here -1) for any other char.
DecimalChars == <<"0", "1", "2", "3", "4", "5", "6", "7", "8", "9">>
ToDigit(ch) ==
    IF \E d \in 1..Len(DecimalChars) : DecimalChars[d] = ch
    THEN (CHOOSE d \in 1..Len(DecimalChars) : DecimalChars[d] = ch) - 1
    ELSE -1
IsSomeDigit(ch) == ToDigit(ch) >= 0

\* The numbers and the buffer after a character ch at (r, c).
OnCharNoClear(nums, buf, ch, r, c) ==
    IF IsSomeDigit(ch)
    THEN [numbers |-> nums, current_number |-> Append(buf, Numeral(r, c, ToDigit(ch)))]
    ELSE IF buf /= << >>
         THEN [numbers |-> Append(nums, buf), current_number |-> buf]
         ELSE [numbers |-> nums, current_number |-> buf]

OnChar(nums, buf, ch, r, c) ==
    IF IsSomeDigit(ch)
    THEN [numbers |-> nums, current_number |-> Append(buf, Numeral(r, c, ToDigit(ch)))]
    ELSE IF buf /= << >>
         THEN [numbers |-> Append(nums, buf), current_number |-> << >>]
         ELSE [numbers |-> nums, current_number |-> buf]

\* The end of a row without the seal: the buffer runs on into the next row.
OnEndOfRowNoSeal(nums, buf) == [numbers |-> nums, current_number |-> buf]

\* The numbers and the buffer after the end of a row.
OnEndOfRow(nums, buf) ==
    IF buf /= << >>
    THEN [numbers |-> Append(nums, buf), current_number |-> << >>]
    ELSE [numbers |-> nums, current_number |-> buf]

CallParseNumbers ==
    /\ gpc = "idle"
    /\ gpc' = "numbers"
    /\ row' = 0
    /\ col' = 0
    /\ numbers' = << >>
    /\ current_number' = << >>
    /\ UNCHANGED <<input, symbols>>

NumbersChar ==
    /\ gpc = "numbers"
    /\ AtChar
    /\ LET next == OnChar(numbers, current_number, Ch, row, col)
       IN  /\ numbers' = next.numbers
           /\ current_number' = next.current_number
    /\ col' = col + 1
    /\ UNCHANGED <<input, gpc, row, symbols>>

NumbersEndOfRow ==
    /\ gpc = "numbers"
    /\ AtEndOfRow
    /\ LET next == OnEndOfRow(numbers, current_number)
       IN  /\ numbers' = next.numbers
           /\ current_number' = next.current_number
    /\ row' = row + 1
    /\ col' = 0
    /\ UNCHANGED <<input, gpc, symbols>>

\* Ok(numbers)
NumbersReturn ==
    /\ gpc = "numbers"
    /\ row = Len(input)
    /\ gpc' = "numbers_done"
    /\ UNCHANGED <<input, row, col, symbols, current_number, numbers>>

(***************************************************************************)
(* Day-1 strings.  A &str is a sequence of chars; a char is a one-character *)
(* string, and takes len_utf8 bytes in the &str.                           *)
(***************************************************************************)
\* char::len_utf8: 1 for an ASCII char, 2 for "\u00e9" (written "E'" here,
\* the one non-ASCII char of the model's inputs).
NonAscii == "E'"
CharLen(ch) == IF ch = NonAscii THEN 2 ELSE 1

RECURSIVE ByteLen(_)
\* str::len: the length in bytes.
ByteLen(str) == IF str = << >> THEN 0 ELSE CharLen(Head(str)) + ByteLen(Tail(str))

\* The byte offset of the char after the first k chars.
ByteOffset(str, k) == ByteLen(SubSeq(str, 1, k))

\* str::is_char_boundary
IsCharBoundary(str, b) == \E k \in 0..Len(str) : ByteOffset(str, k) = b

\* &str[b..] for a char boundary b.
SliceFrom(str, b) ==
    LET k == CHOOSE k \in 0..Len(str) : ByteOffset(str, k) = b
    IN  SubSeq(str, k + 1, Len(str))

\* str.chars().nth(n) is Some: n counts chars, not bytes.
NthIsSome(str, n) == n < Len(str)
Nth(str, n) == str[n + 1]

\* is_ascii_digit without '0'.
IsAsciiDigitNoZero(ch) == ch \in {"1", "2", "3", "4", "5", "6", "7", "8", "9"}

\* char::is_ascii_digit
IsAsciiDigit(ch) == ch \in {"0", "1", "2", "3", "4", "5", "6", "7", "8", "9"}

\* str::starts_with
StartsWith(str, key) == Len(key) <= Len(str) /\ SubSeq(str, 1, Len(key)) = key

(***************************************************************************)
(* Day-1 replace_strings                                                   *)
(***************************************************************************)
\* The word table with one more entry, ("sixteen", "16").
WordMapWithSixteen ==
    { [key |-> <<"o", "n", "e">>, value |-> <<"1">>],
      [key |-> <<"t", "w", "o">>, value |-> <<"2">>],
      [key |-> <<"t", "h", "r", "e", "e">>, value |-> <<"3">>],
      [key |-> <<"f", "o", "u", "r">>, value |-> <<"4">>],
      [key |-> <<"f", "i", "v", "e">>, value |-> <<"5">>],
      [key |-> <<"s", "i", "x">>, value |-> <<"6">>],
      [key |-> <<"s", "e", "v", "e", "n">>, value |-> <<"7">>],
      [key |-> <<"e", "i", "g", "h", "t">>, value |-> <<"8">>],
      [key |-> <<"n", "i", "n", "e">>, value |-> <<"9">>],
      [key |-> <<"s", "i", "x", "t", "e", "e", "n">>, value |-> <<"1", "6">>] }

\* let map = HashMap::from([("one", "1"), ..., ("nine", "9")])
WordMap ==
    { [key |-> <<"o", "n", "e">>, value |-> <<"1">>],
      [key |-> <<"t", "w", "o">>, value |-> <<"2">>],
      [key |-> <<"t", "h", "r", "e", "e">>, value |-> <<"3">>],
      [key |-> <<"f", "o", "u", "r">>, value |-> <<"4">>],
      [key |-> <<"f", "i", "v", "e">>, value |-> <<"5">>],
      [key |-> <<"s", "i", "x">>, value |-> <<"6">>],
      [key |-> <<"s", "e", "v", "e", "n">>, value |-> <<"7">>],
      [key |-> <<"e", "i", "g", "h", "t">>, value |-> <<"8">>],
      [key |-> <<"n", "i", "n", "e">>, value |-> <<"9">>] }

\* The cursor advance after a word, by the whole word.
AdvanceWholeWord(key) == ByteLen(key)

\* i += key.len() - 1
Advance(key) == ByteLen(key) - 1

\* The entries of the map whose key the rest of the line starts with.  The
\* map is a HashMap: its iteration order is arbitrary, and differs from one
\* call to the next, so the first match of the for loop is any of these.
Matching == {e \in WordMap : StartsWith(SliceFrom(line, i), e.key)}

\* let mut result = String::new(); let mut i = 0
CallReplaceStrings ==
    /\ rpc = "idle"
    /\ rpc' = "loop"
    /\ i' = 0
    /\ result' = << >>
    /\ UNCHANGED <<line, call, first>>

\* &line[i..] off a char boundary, or chars().nth(i) past the last char.
LoopPanic ==
    /\ rpc = "loop"
    /\ i < ByteLen(line)
    /\ ~IsCharBoundary(line, i) \/ ~NthIsSome(line, i)
    /\ rpc' = "panic"
    /\ result' = << >>
    /\ UNCHANGED <<line, i, call, first>>

\* The char at the cursor is a digit: it is pushed, i += 1, continue.
LoopDigit ==
    /\ rpc = "loop"
    /\ i < ByteLen(line)
    /\ IsCharBoundary(line, i) /\ NthIsSome(line, i)
    /\ IsAsciiDigit(Nth(line, i))
    /\ result' = Append(result, Nth(line, i))
    /\ i' = i + 1
    /\ UNCHANGED <<line, rpc, call, first>>

\* A key of the map starts at the cursor: its value is pushed and the cursor
\* moves to the key's last character.
LoopWord ==
    /\ rpc = "loop"
    /\ i < ByteLen(line)
    /\ IsCharBoundary(line, i) /\ NthIsSome(line, i)
    /\ ~IsAsciiDigit(Nth(line, i))
    /\ \E e \in Matching :
           /\ result' = result \o e.value
           /\ i' = i + Advance(e.key)
    /\ UNCHANGED <<line, rpc, call, first>>

\* Neither: i += 1.
LoopOther ==
    /\ rpc = "loop"
    /\ i < ByteLen(line)
    /\ IsCharBoundary(line, i) /\ NthIsSome(line, i)
    /\ ~IsAsciiDigit(Nth(line, i))
    /\ Matching = {}
    /\ i' = i + 1
    /\ UNCHANGED <<line, result, rpc, call, first>>

\* The loop ends: result is returned.
ReplaceStringsReturn ==
    /\ rpc = "loop"
    /\ i >= ByteLen(line)
    /\ rpc' = "done"
    /\ UNCHANGED <<line, i, result, call, first>>

\* replace_strings is called on the same line once more (with a map of its
\* own, in an order of its own); the first call's outcome is kept.
CallAgain ==
    /\ rpc \in {"done", "panic"}
    /\ call = 1
    /\ first' = [pc |-> rpc, result |-> result]
    /\ call' = 2
    /\ rpc' = "loop"
    /\ i' = 0
    /\ result' = << >>
    /\ UNCHANGED line

(***************************************************************************)
(* Day-1 parse_data                                                        *)
(***************************************************************************)
\* new_line.chars().find(|c| c.is_ascii_digit()): the index of the first
\* digit char, 0 for None.
FirstDigit(str) ==
    IF \E k \in 1..Len(str) : IsAsciiDigit(str[k])
    THEN CHOOSE k \in 1..Len(str) :
             IsAsciiDigit(str[k]) /\ \A m \in 1..(k - 1) : ~IsAsciiDigit(str[m])
    ELSE 0

\* The last digit looked for without rev().
LastDigitFromTheFront(str) == FirstDigit(str)

\* new_line.chars().rev().find(|c| c.is_ascii_digit()): the index of the last
\* digit char, 0 for None.
LastDigit(str) ==
    IF \E k \in 1..Len(str) : IsAsciiDigit(str[k])
    THEN CHOOSE k \in 1..Len(str) :
             IsAsciiDigit(str[k]) /\ \A m \in (k + 1)..Len(str) : ~IsAsciiDigit(str[m])
    ELSE 0

RECURSIVE ParseUsize(_)
\* str::parse::<usize> of a string of decimal digits.
ParseUsize(str) ==
    IF str = << >> THEN 0
    ELSE ParseUsize(SubSeq(str, 1, Len(str) - 1)) * 10 + ToDigit(str[Len(str)])

\* A line without a digit is passed over instead of unwrapped.
AfterLineSkipping(res, new_line) ==
    IF FirstDigit(new_line) = 0
    THEN [pc |-> "iter", result |-> res]
    ELSE [pc |-> "iter",
          result |-> Append(res, ParseUsize(<<new_line[FirstDigit(new_line)],
                                              new_line[LastDigit(new_line)]>>))]

\* The closure's body after replace_strings has returned new_line: the two
\* unwrap()s panic on a string without a digit (the result is dropped with
\* the unwinding); otherwise format!("{}{}", first_digit, last_digit) is
\* parsed and pushed.
AfterLine(res, new_line) ==
    IF FirstDigit(new_line) = 0
    THEN [pc |-> "panic", result |-> << >>]
    ELSE [pc |-> "iter",
          result |-> Append(res, ParseUsize(<<new_line[FirstDigit(new_line)],
                                              new_line[LastDigit(new_line)]>>))]

\* let mut result: Vec<usize> = Vec::new()
CallParseData ==
    /\ dpc = "idle"
    /\ dpc' = "iter"
    /\ dli' = 0
    /\ pd_result' = << >>
    /\ UNCHANGED <<data, day1Vars>>

\* The closure is entered with the next line: replace_strings(line) is called.
ParseDataLine ==
    /\ dpc = "iter"
    /\ dli < Len(data)
    /\ dpc' = "replace"
    /\ line' = data[dli + 1]
    /\ rpc' = "loop"
    /\ i' = 0
    /\ result' = << >>
    /\ UNCHANGED <<data, dli, pd_result, call, first>>

\* replace_strings has returned.
ParseDataPush ==
    /\ dpc = "replace"
    /\ rpc = "done"
    /\ LET next == AfterLine(pd_result, result)
       IN  /\ dpc' = next.pc
           /\ pd_result' = next.result
           /\ dli' = IF next.pc = "iter" THEN dli + 1 ELSE dli
    /\ rpc' = "idle"
    /\ UNCHANGED <<data, line, i, result, call, first>>

\* replace_strings has panicked: parse_data unwinds with it.
ParseDataUnwind ==
    /\ dpc = "replace"
    /\ rpc = "panic"
    /\ dpc' = "panic"
    /\ pd_result' = << >>
    /\ UNCHANGED <<data, dli, day1Vars>>

\* Ok(result)
ParseDataReturn ==
    /\ dpc = "iter"
    /\ dli = Len(data)
    /\ dpc' = "done"
    /\ UNCHANGED <<data, dli, pd_result, day1Vars>>

(***************************************************************************)
(* Day-2: Color, ColorCount, Round, Game                                   *)
(***************************************************************************)
\* enum Color { Blue, Green, Red }, each written as the word it is parsed from.
Color == {"blue", "green", "red"}
ColorCount(color, count) == [color |-> color, count |-> count]
\* Round(Vec<ColorCount>) is the sequence itself.
Game(id, rounds) == [id |-> id, rounds |-> rounds]

\* usize arithmetic on residues modulo 2^64 (see USIZE_MAX): n >= 0 is the
\* number n, n < 0 is the number 2^64 + n.  The numbers of the model are
\* within a few thousand of 0 or of 2^64.
\* a + b overflows: a panic in a debug build, a wrap in a release build.
AddOverflows(a, b) ==
    IF a >= 0 /\ b >= 0 THEN FALSE
    ELSE IF a < 0 /\ b < 0 THEN TRUE
    ELSE a + b >= 0
WrappingAdd(a, b) == a + b

\* a * b overflows.
MulOverflows(a, b) ==
    IF a >= 0 /\ b >= 0 THEN FALSE
    ELSE IF a < 0 /\ b < 0 THEN TRUE
    ELSE IF a < 0 THEN b >= 2 ELSE a >= 2
WrappingMul(a, b) == a * b

\* a <= b on usize.
Le(a, b) == IF (a >= 0) = (b >= 0) THEN a <= b ELSE a >= 0

\* The maximum that forgets what it has seen.
MaxAsLatest(a, b) == b

\* a.max(b)
UsizeMax(a, b) == IF Le(a, b) THEN b ELSE a

\* let mut blue = 0; let mut green = 0; let mut red = 0;
Zero == [blue |-> 0, green |-> 0, red |-> 0]

\* The limits with red and green exchanged.
WithinLimitsExchanged(t) == Le(t.blue, 14) /\ Le(t.green, 12) /\ Le(t.red, 13)

\* blue <= 14 && green <= 13 && red <= 12
WithinLimits(t) == Le(t.blue, 14) /\ Le(t.green, 13) /\ Le(t.red, 12)

CurrentGame == games[gi + 1]
CurrentRound == CurrentGame.rounds[ri + 1]
CurrentEntry == CurrentRound[ei + 1]

(***************************************************************************)
(* Day-2: the nom parsers.  A parser's result is Ok((rest, out)) or Err.    *)
(***************************************************************************)
Ok(rest, out) == [ok |-> TRUE, rest |-> rest, out |-> out]
Err == [ok |-> FALSE, rest |-> << >>, out |-> << >>]

\* What is left of the input after its first n chars.
DropChars(inp, n) == SubSeq(inp, n + 1, Len(inp))

\* tag(t)
Tag(t, inp) ==
    IF StartsWith(inp, t) THEN Ok(DropChars(inp, Len(t)), t) ELSE Err

RECURSIVE RunLength(_, _)
\* The length of the longest prefix of the input made of the given chars.
RunLength(inp, chars) ==
    IF inp /= << >> /\ Head(inp) \in chars
    THEN 1 + RunLength(Tail(inp), chars)
    ELSE 0

\* digit1: one or more of '0'..'9'.
Digit1(inp) ==
    LET n == RunLength(inp, {"0", "1", "2", "3", "4", "5", "6", "7", "8", "9"})
    IN  IF n = 0 THEN Err ELSE Ok(DropChars(inp, n), SubSeq(inp, 1, n))

\* map_res(digit1, str::parse::<usize>).  parse fails from 2^64 on, a number
\* of 20 digits; the runs of digits of the model's lines are shorter.
Usize(inp) ==
    LET digits == Digit1(inp)
    IN  IF digits.ok THEN Ok(digits.rest, ParseUsize(digits.out)) ELSE Err

\* space1: one or more spaces or tabs.
Space1(inp) ==
    LET n == RunLength(inp, {" ", "\t"})
    IN  IF n = 0 THEN Err ELSE Ok(DropChars(inp, n), SubSeq(inp, 1, n))

\* parse_color: alt((tag("blue"), tag("green"), tag("red")))
ParseColor(inp) ==
    IF Tag(<<"b", "l", "u", "e">>, inp).ok THEN Ok(Tag(<<"b", "l", "u", "e">>, inp).rest, "blue")
    ELSE IF Tag(<<"g", "r", "e", "e", "n">>, inp).ok THEN Ok(Tag(<<"g", "r", "e", "e", "n">>, inp).rest, "green")
    ELSE IF Tag(<<"r", "e", "d">>, inp).ok THEN Ok(Tag(<<"r", "e", "d">>, inp).rest, "red")
    ELSE Err

\* parse_color_count: tuple((map_res(digit1, ...), space1, parse_color))
ParseColorCount(inp) ==
    LET count == Usize(inp)
        space == Space1(count.rest)
        color == ParseColor(space.rest)
    IN  IF count.ok /\ space.ok /\ color.ok
        THEN Ok(color.rest, ColorCount(color.out, count.out))
        ELSE Err

RECURSIVE MoreColorCounts(_, _)
\* separated_list1 after its first element: on a failing separator, and on a
\* failing element after a separator, it returns the list so far with the
\* input as it was before that separator.
MoreColorCounts(inp, list) ==
    LET sep == Tag(<<",", " ">>, inp)
        elem == ParseColorCount(sep.rest)
    IN  IF sep.ok /\ elem.ok
        THEN MoreColorCounts(elem.rest, Append(list, elem.out))
        ELSE Ok(inp, list)

\* parse_round: separated_list1(tag(", "), parse_color_count)
ParseRound(inp) ==
    LET elem == ParseColorCount(inp)
    IN  IF elem.ok THEN MoreColorCounts(elem.rest, <<elem.out>>) ELSE Err

RECURSIVE MoreRounds(_, _)
MoreRounds(inp, list) ==
    LET sep == Tag(<<";", " ">>, inp)
        elem == ParseRound(sep.rest)
    IN  IF sep.ok /\ elem.ok
        THEN MoreRounds(elem.rest, Append(list, elem.out))
        ELSE Ok(inp, list)

\* parse_game: tag("Game "), the id, tag(": "), then
\* separated_list1(tag("; "), parse_round)
ParseGame(inp) ==
    LET game == Tag(<<"G", "a", "m", "e", " ">>, inp)
        id == Usize(game.rest)
        colon == Tag(<<":", " ">>, id.rest)
        round == ParseRound(colon.rest)
        rounds == MoreRounds(round.rest, <<round.out>>)
    IN  IF game.ok /\ id.ok /\ colon.ok /\ round.ok
        THEN Ok(rounds.rest, Game(id.out, rounds.out))
        ELSE Err

(***************************************************************************)
(* Day-2 parse_data                                                        *)
(***************************************************************************)
foldVars == <<mpc, gi, ri, ei, total, total_power, tally, maxima, verdicts, powers>>

\* let mut result = Vec::new()
CallDay2ParseData ==
    /\ d2pc = "idle"
    /\ d2pc' = "iter"
    /\ d2li' = 0
    /\ games' = << >>
    /\ UNCHANGED <<d2input, foldVars>>

\* The closure on the next line: let (_, game) = parse_game(line).unwrap();
\* result.push(game).  The remainder of the line is the `_`.
Day2ParseLine ==
    /\ d2pc = "iter"
    /\ d2li < Len(d2input)
    /\ LET parsed == ParseGame(d2input[d2li + 1])
       IN  IF parsed.ok
           THEN /\ games' = Append(games, parsed.out)
                /\ d2li' = d2li + 1
                /\ UNCHANGED d2pc
           ELSE /\ d2pc' = "panic"
                /\ games' = << >>
                /\ UNCHANGED d2li
    /\ UNCHANGED <<d2input, foldVars>>

\* Ok(result)
Day2ParseDataReturn ==
    /\ d2pc = "iter"
    /\ d2li = Len(d2input)
    /\ d2pc' = "done"
    /\ UNCHANGED <<d2input, d2li, games, foldVars>>

(***************************************************************************)
(* main: the first fold, with is_feasible                                  *)
(***************************************************************************)
\* data.iter().fold(0, ...)
StartFeasibleFold ==
    /\ mpc = "idle"
    /\ mpc' = "feasible"
    /\ gi' = 0 /\ ri' = 0 /\ ei' = 0
    /\ total' = 0
    /\ tally' = Zero
    /\ verdicts' = << >>
    /\ UNCHANGED <<games, total_power, maxima, powers>>

\* is_feasible, one color_count of a round: blue += color_count.count (or
\* green, or red).
FeasibleEntry ==
    /\ mpc = "feasible"
    /\ gi < Len(games)
    /\ ri < Len(CurrentGame.rounds)
    /\ ei < Len(CurrentRound)
    /\ LET c == CurrentEntry.color
           n == CurrentEntry.count
       IN  IF overflow_checks /\ AddOverflows(tally[c], n)
           THEN /\ mpc' = "panic"
                /\ UNCHANGED <<ei, tally>>
           ELSE /\ tally' = [tally EXCEPT ![c] = WrappingAdd(tally[c], n)]
                /\ ei' = ei + 1
                /\ UNCHANGED mpc
    /\ UNCHANGED <<games, gi, ri, total, total_power, maxima, verdicts, powers>>

\* is_feasible, the end of a round's closure: all() goes on to the next round
\* on true and returns false on false; the fold then keeps acc.
FeasibleRoundEnd ==
    /\ mpc = "feasible"
    /\ gi < Len(games)
    /\ ri < Len(CurrentGame.rounds)
    /\ ei = Len(CurrentRound)
    /\ IF WithinLimits(tally)
       THEN /\ ri' = ri + 1
            /\ UNCHANGED <<gi, verdicts>>
       ELSE /\ verdicts' = Append(verdicts, FALSE)
            /\ gi' = gi + 1
            /\ ri' = 0
    /\ ei' = 0
    /\ tally' = Zero
    /\ UNCHANGED <<games, mpc, total, total_power, maxima, powers>>

\* is_feasible returns true after the last round: acc + game.id
FeasibleGameEnd ==
    /\ mpc = "feasible"
    /\ gi < Len(games)
    /\ ri = Len(CurrentGame.rounds)
    /\ verdicts' = Append(verdicts, TRUE)
    /\ IF overflow_checks /\ AddOverflows(total, CurrentGame.id)
       THEN /\ mpc' = "panic"
            /\ UNCHANGED <<gi, ri, total>>
       ELSE /\ total' = WrappingAdd(total, CurrentGame.id)
            /\ gi' = gi + 1
            /\ ri' = 0
            /\ UNCHANGED mpc
    /\ UNCHANGED <<games, ei, total_power, tally, maxima, powers>>

\* The first fold has ended; the second begins: data.iter().fold(0, ...)
StartPowerFold ==
    /\ mpc = "feasible"
    /\ gi = Len(games)
    /\ mpc' = "power"
    /\ gi' = 0 /\ ri' = 0 /\ ei' = 0
    /\ total_power' = 0
    /\ tally' = Zero
    /\ maxima' = Zero
    /\ powers' = << >>
    /\ UNCHANGED <<games, total, verdicts>>

(***************************************************************************)
(* main: the second fold, with get_power                                   *)
(***************************************************************************)
\* blue_max * green_max * red_max, from the left.
ProductOverflows(m) ==
    \/ MulOverflows(m.blue, m.green)
    \/ MulOverflows(WrappingMul(m.blue, m.green), m.red)
Product(m) == WrappingMul(WrappingMul(m.blue, m.green), m.red)

\* get_power, one color_count of a round: blue += color_count.count;
\* blue_max = blue_max.max(blue) (or green, or red).
PowerEntry ==
    /\ mpc = "power"
    /\ gi < Len(games)
    /\ ri < Len(CurrentGame.rounds)
    /\ ei < Len(CurrentRound)
    /\ LET c == CurrentEntry.color
           n == CurrentEntry.count
           sum == WrappingAdd(tally[c], n)
       IN  IF overflow_checks /\ AddOverflows(tally[c], n)
           THEN /\ mpc' = "panic"
                /\ UNCHANGED <<ei, tally, maxima>>
           ELSE /\ tally' = [tally EXCEPT ![c] = sum]
                /\ maxima' = [maxima EXCEPT ![c] = UsizeMax(maxima[c], sum)]
                /\ ei' = ei + 1
                /\ UNCHANGED mpc
    /\ UNCHANGED <<games, gi, ri, total, total_power, verdicts, powers>>

\* get_power, the end of a round's closure.
PowerRoundEnd ==
    /\ mpc = "power"
    /\ gi < Len(games)
    /\ ri < Len(CurrentGame.rounds)
    /\ ei = Len(CurrentRound)
    /\ ri' = ri + 1
    /\ ei' = 0
    /\ tally' = Zero
    /\ UNCHANGED <<games, mpc, gi, total, total_power, maxima, verdicts, powers>>

\* get_power returns blue_max * green_max * red_max: acc + power
PowerGameEnd ==
    /\ mpc = "power"
    /\ gi < Len(games)
    /\ ri = Len(CurrentGame.rounds)
    /\ IF overflow_checks /\ ProductOverflows(maxima)
       THEN /\ mpc' = "panic"
            /\ UNCHANGED <<gi, ri, total_power, maxima, powers>>
       ELSE /\ powers' = Append(powers, Product(maxima))
            /\ IF overflow_checks /\ AddOverflows(total_power, Product(maxima))
               THEN /\ mpc' = "panic"
                    /\ UNCHANGED <<gi, ri, total_power, maxima>>
               ELSE /\ total_power' = WrappingAdd(total_power, Product(maxima))
                    /\ gi' = gi + 1
                    /\ ri' = 0
                    /\ maxima' = Zero
                    /\ UNCHANGED mpc
    /\ UNCHANGED <<games, ei, total, tally, verdicts>>

\* The second fold has ended.
EndPowerFold ==
    /\ mpc = "power"
    /\ gi = Len(games)
    /\ mpc' = "done"
    /\ UNCHANGED <<games, gi, ri, ei, total, total_power, tally, maxima,
                   verdicts, powers>>

(***************************************************************************)
(* Idle values of the programs a specification does not run.               *)
(***************************************************************************)
NumIdle ==
    /\ number = << >>
    /\ overflow_checks = TRUE
    /\ npc = "off"
    /\ ni = 0
    /\ border = {}
    /\ value = U32(0)

GridIdle ==
    /\ input = << >>
    /\ gpc = "off"
    /\ row = 0
    /\ col = 0
    /\ symbols = << >>
    /\ current_number = << >>
    /\ numbers = << >>

Day1Idle ==
    /\ line = << >>
    /\ i = 0
    /\ result = << >>
    /\ rpc = "off"
    /\ call = 1
    /\ first = [pc |-> "none", result |-> << >>]

ParseDataIdle ==
    /\ data = << >>
    /\ dli = 0
    /\ pd_result = << >>
    /\ dpc = "off"

Day2Idle ==
    /\ d2input = << >>
    /\ d2li = 0
    /\ d2pc = "off"
    /\ games = << >>
    /\ mpc = "off"
    /\ gi = 0
    /\ ri = 0
    /\ ei = 0
    /\ total = 0
    /\ total_power = 0
    /\ tally = [blue |-> 0, green |-> 0, red |-> 0]
    /\ maxima = [blue |-> 0, green |-> 0, red |-> 0]
    /\ verdicts = << >>
    /\ powers = << >>

(***************************************************************************)
(* SpecBorder: border() on every Number of the bounded family.             *)
(***************************************************************************)
\* The digits of tests::test_border and tests::test_value.
TestDigits == <<4, 6, 7, 8, 9>>

\* border() does not read the digits: the Number of k Numerals carries the
\* test's digits, repeated.
BorderDigits(k) == [j \in 1..k |-> TestDigits[((j - 1) % Len(TestDigits)) + 1]]

InitBorder ==
    /\ \E r \in 0..MaxRow, c0 \in 0..MaxCol, k \in 1..MaxBorderLen :
           number = NumberAt(r, c0, BorderDigits(k))
    /\ overflow_checks \in BOOLEAN
    /\ npc = "idle"
    /\ ni = 0
    /\ border = {}
    /\ value = U32(0)
    /\ GridIdle
    /\ Day1Idle
    /\ ParseDataIdle
    /\ Day2Idle

NextBorder ==
    \/ CallBorder /\ UNCHANGED <<gridVars, day1Vars, pdVars, d2pVars, mainVars>>
    \/ BorderFirst /\ UNCHANGED <<gridVars, day1Vars, pdVars, d2pVars, mainVars>>
    \/ BorderLast /\ UNCHANGED <<gridVars, day1Vars, pdVars, d2pVars, mainVars>>
    \/ BorderMiddle /\ UNCHANGED <<gridVars, day1Vars, pdVars, d2pVars, mainVars>>
    \/ BorderReturn /\ UNCHANGED <<gridVars, day1Vars, pdVars, d2pVars, mainVars>>

SpecBorder == InitBorder /\ [][NextBorder]_vars

(***************************************************************************)
(* SpecValue: value() on Numbers of every digit sequence of the family.    *)
(***************************************************************************)
\* Every sequence of 1..MaxFullLen decimal digits, the test's digits, and the
\* long inputs: a head over LongDigits followed by a run of one fill digit,
\* which reach and pass ten digits and u32::MAX = 4294967295 (4000000000 and
\* 4099999999 fit; 4400000000 and 9000000000 do not).
Digit      == 0..9
LongDigits == {0, 4, 9}
FillDigits == {0, 9}

LongInputs ==
    { head \o [j \in 1..n |-> fill] :
        head \in SeqsUpTo(LongDigits, MaxHeadLen) \ {<< >>},
        fill \in FillDigits, n \in 0..MaxFill }

ValueInputs ==
    (SeqsUpTo(Digit, MaxFullLen) \ {<< >>}) \cup LongInputs \cup {TestDigits}

InitValue ==
    /\ \E ds \in ValueInputs : number = NumberAt(TestRow, TestCol, ds)
    /\ overflow_checks \in BOOLEAN
    /\ npc = "idle"
    /\ ni = 0
    /\ border = {}
    /\ value = U32(0)
    /\ GridIdle
    /\ Day1Idle
    /\ ParseDataIdle
    /\ Day2Idle

NextValue ==
    \/ CallValue /\ UNCHANGED <<gridVars, day1Vars, pdVars, d2pVars, mainVars>>
    \/ ValueAdd /\ UNCHANGED <<gridVars, day1Vars, pdVars, d2pVars, mainVars>>
    \/ ValueReturn /\ UNCHANGED <<gridVars, day1Vars, pdVars, d2pVars, mainVars>>

SpecValue == InitValue /\ [][NextValue]_vars

(***************************************************************************)
(* SpecGrid: parse_symbols or parse_numbers on the rows of every input     *)
(* text of the bounded family.                                             *)
(***************************************************************************)
\* A digit, the period, the four markers, a character that is none of them,
\* and the line break.
GridChars == {"7", ".", "*", "$", "+", "#", "x"}
InputTexts == SeqsUpTo(GridChars \cup {"\n"}, MaxInput)

InitGrid ==
    /\ \E text \in InputTexts : input = Lines(text)
    /\ gpc = "idle"
    /\ row = 0
    /\ col = 0
    /\ symbols = << >>
    /\ current_number = << >>
    /\ numbers = << >>
    /\ NumIdle
    /\ Day1Idle
    /\ ParseDataIdle
    /\ Day2Idle

NextGrid ==
    \/ CallParseSymbols /\ UNCHANGED <<numVars, day1Vars, pdVars, d2pVars, mainVars>>
    \/ SymbolsChar /\ UNCHANGED <<numVars, day1Vars, pdVars, d2pVars, mainVars>>
    \/ SymbolsEndOfRow /\ UNCHANGED <<numVars, day1Vars, pdVars, d2pVars, mainVars>>
    \/ SymbolsReturn /\ UNCHANGED <<numVars, day1Vars, pdVars, d2pVars, mainVars>>
    \/ CallParseNumbers /\ UNCHANGED <<numVars, day1Vars, pdVars, d2pVars, mainVars>>
    \/ NumbersChar /\ UNCHANGED <<numVars, day1Vars, pdVars, d2pVars, mainVars>>
    \/ NumbersEndOfRow /\ UNCHANGED <<numVars, day1Vars, pdVars, d2pVars, mainVars>>
    \/ NumbersReturn /\ UNCHANGED <<numVars, day1Vars, pdVars, d2pVars, mainVars>>

SpecGrid == InitGrid /\ [][NextGrid]_vars

(***************************************************************************)
(* SpecDay1: replace_strings, twice, on every line of the bounded family.  *)
(***************************************************************************)
\* The pieces the lines are made of: the nine words, the words that share
\* their last letter with the first letter of another word, cut before that
\* letter ("tw" + "one" is "twone"), two digits, a letter and a non-ASCII char.
Tokens ==
    { <<"o", "n", "e">>,
      <<"t", "w", "o">>,
      <<"t", "h", "r", "e", "e">>,
      <<"f", "o", "u", "r">>,
      <<"f", "i", "v", "e">>,
      <<"s", "i", "x">>,
      <<"s", "e", "v", "e", "n">>,
      <<"e", "i", "g", "h", "t">>,
      <<"n", "i", "n", "e">>,
      <<"o", "n">>,
      <<"t", "w">>,
      <<"t", "h", "r", "e">>,
      <<"f", "i", "v">>,
      <<"s", "e", "v", "e">>,
      <<"e", "i", "g", "h">>,
      <<"n", "i", "n">>,
      <<"0">>, <<"3">>, <<"x">>, <<NonAscii>> }

\* The lines of tests::test_replace_strings.
TestLines ==
    { <<"t", "w", "o", "1", "n", "i", "n", "e">>,
      <<"e", "i", "g", "h", "t", "w", "o", "t", "h", "r", "e", "e">>,
      <<"a", "b", "c", "o", "n", "e", "2", "t", "h", "r", "e", "e", "x", "y", "z">>,
      <<"x", "t", "w", "o", "n", "e", "3", "f", "o", "u", "r">>,
      <<"4", "n", "i", "n", "e", "e", "i", "g", "h", "t", "s", "e", "v", "e", "n", "2">>,
      <<"z", "o", "n", "e", "i", "g", "h", "t", "2", "3", "4">>,
      <<"7", "p", "q", "r", "s", "t", "s", "i", "x", "t", "e", "e", "n">>,
      <<"f", "4", "7", "n", "i", "n", "e", "x", "f", "q", "s", "b", "d", "r", "s", "e", "v", "e", "n", "t", "w", "o", "7", "t", "w", "o", "n", "e", "p">> }

RECURSIVE Concat(_)
Concat(parts) == IF parts = << >> THEN << >> ELSE Head(parts) \o Concat(Tail(parts))

DayOneLines == {Concat(parts) : parts \in SeqsUpTo(Tokens, MaxTokens)} \cup TestLines

InitDay1 ==
    /\ line \in DayOneLines
    /\ i = 0
    /\ result = << >>
    /\ rpc = "idle"
    /\ call = 1
    /\ first = [pc |-> "none", result |-> << >>]
    /\ NumIdle
    /\ GridIdle
    /\ ParseDataIdle
    /\ Day2Idle

NextDay1 ==
    \/ CallReplaceStrings /\ UNCHANGED <<numVars, gridVars, pdVars, d2pVars, mainVars>>
    \/ LoopPanic /\ UNCHANGED <<numVars, gridVars, pdVars, d2pVars, mainVars>>
    \/ LoopDigit /\ UNCHANGED <<numVars, gridVars, pdVars, d2pVars, mainVars>>
    \/ LoopWord /\ UNCHANGED <<numVars, gridVars, pdVars, d2pVars, mainVars>>
    \/ LoopOther /\ UNCHANGED <<numVars, gridVars, pdVars, d2pVars, mainVars>>
    \/ ReplaceStringsReturn /\ UNCHANGED <<numVars, gridVars, pdVars, d2pVars, mainVars>>
    \/ CallAgain /\ UNCHANGED <<numVars, gridVars, pdVars, d2pVars, mainVars>>

SpecDay1 == InitDay1 /\ [][NextDay1]_vars

(***************************************************************************)
(* SpecParseData: the Day-1 parse_data on every list of lines of the       *)
(* bounded family.                                                         *)
(***************************************************************************)
\* Lines of tests::test_parse_data and tests::test_parse_data_2, and lines
\* without a digit or a word: the empty line, "x", and a non-ASCII char before
\* a digit.
ParseDataLines ==
    { <<"1", "a", "b", "c", "2">>,
      <<"p", "q", "r", "3", "s", "t", "u", "8", "v", "w", "x">>,
      <<"a", "1", "b", "2", "c", "3", "d", "4", "e", "5", "f">>,
      <<"t", "r", "e", "b", "7", "u", "c", "h", "e", "t">>,
      <<"t", "w", "o", "1", "n", "i", "n", "e">>,
      <<"e", "i", "g", "h", "t", "w", "o", "t", "h", "r", "e", "e">>,
      <<"x", "t", "w", "o", "n", "e", "3", "f", "o", "u", "r">>,
      << >>, <<"x">>, <<NonAscii, "1">> }

InitParseData ==
    /\ data \in SeqsUpTo(ParseDataLines, MaxData)
    /\ dli = 0
    /\ pd_result = << >>
    /\ dpc = "idle"
    /\ line = << >>
    /\ i = 0
    /\ result = << >>
    /\ rpc = "idle"
    /\ call = 1
    /\ first = [pc |-> "none", result |-> << >>]
    /\ NumIdle
    /\ GridIdle
    /\ Day2Idle

NextParseData ==
    \/ CallParseData /\ UNCHANGED <<numVars, gridVars, d2pVars, mainVars>>
    \/ ParseDataLine /\ UNCHANGED <<numVars, gridVars, d2pVars, mainVars>>
    \/ LoopPanic /\ UNCHANGED <<numVars, gridVars, pdVars, d2pVars, mainVars>>
    \/ LoopDigit /\ UNCHANGED <<numVars, gridVars, pdVars, d2pVars, mainVars>>
    \/ LoopWord /\ UNCHANGED <<numVars, gridVars, pdVars, d2pVars, mainVars>>
    \/ LoopOther /\ UNCHANGED <<numVars, gridVars, pdVars, d2pVars, mainVars>>
    \/ ReplaceStringsReturn /\ UNCHANGED <<numVars, gridVars, pdVars, d2pVars, mainVars>>
    \/ ParseDataPush /\ UNCHANGED <<numVars, gridVars, d2pVars, mainVars>>
    \/ ParseDataUnwind /\ UNCHANGED <<numVars, gridVars, d2pVars, mainVars>>
    \/ ParseDataReturn /\ UNCHANGED <<numVars, gridVars, d2pVars, mainVars>>

SpecParseData == InitParseData /\ [][NextParseData]_vars

(***************************************************************************)
(* SpecMain: the two folds of the Day-2 main on every list of games of the *)
(* bounded families, in both build profiles.                               *)
(***************************************************************************)
\* The entries games are made of: counts whose sums of two fall on both
\* sides of each limit, and the largest usize.
Entries ==
    { ColorCount("red", 6), ColorCount("red", 7),
      ColorCount("green", 6), ColorCount("green", 7),
      ColorCount("blue", 7), ColorCount("blue", 8),
      ColorCount("blue", USIZE_MAX) }

RECURSIVE RoundsOf(_, _)
\* The rounds of a game given as its entries in order and, for each entry
\* but the first, whether it opens a new round.
RoundsOf(entries, opens) ==
    IF Len(entries) = 1 THEN << <<entries[1]>> >>
    ELSE LET n == Len(entries)
             before == RoundsOf(SubSeq(entries, 1, n - 1), SubSeq(opens, 1, n - 2))
         IN  IF opens[n - 1]
             THEN Append(before, <<entries[n]>>)
             ELSE [before EXCEPT ![Len(before)] = Append(@, entries[n])]

\* The data is one game of 1..MaxEntries entries, split into rounds in one of
\* the ways there are.
IsOneGameList(list) ==
    \E e \in SeqsUpTo(Entries, MaxEntries) :
        /\ e /= << >>
        /\ \E o \in [1..(Len(e) - 1) -> BOOLEAN] : list = << Game(1, RoundsOf(e, o)) >>

\* The five games of tests::test_parse_data.
SampleGames ==
    << Game(1, << <<ColorCount("blue", 3), ColorCount("red", 4)>>,
                  <<ColorCount("red", 1), ColorCount("green", 2), ColorCount("blue", 6)>>,
                  <<ColorCount("green", 2)>> >>),
       Game(2, << <<ColorCount("blue", 1), ColorCount("green", 2)>>,
                  <<ColorCount("green", 3), ColorCount("blue", 4), ColorCount("red", 1)>>,
                  <<ColorCount("green", 1), ColorCount("blue", 1)>> >>),
       Game(3, << <<ColorCount("green", 8), ColorCount("blue", 6), ColorCount("red", 20)>>,
                  <<ColorCount("blue", 5), ColorCount("red", 4), ColorCount("green", 13)>>,
                  <<ColorCount("green", 5), ColorCount("red", 1)>> >>),
       Game(4, << <<ColorCount("green", 1), ColorCount("red", 3), ColorCount("blue", 6)>>,
                  <<ColorCount("green", 3), ColorCount("red", 6)>>,
                  <<ColorCount("green", 3), ColorCount("blue", 15), ColorCount("red", 14)>> >>),
       Game(5, << <<ColorCount("red", 6), ColorCount("blue", 1), ColorCount("green", 3)>>,
                  <<ColorCount("blue", 2), ColorCount("red", 1), ColorCount("green", 2)>> >>) >>

\* Lists of 0..MaxGames games of one round, with ids small and largest.
ManyGameLists ==
    SeqsUpTo({ Game(id, <<r>>) :
                 id \in {1, 2, USIZE_MAX},
                 r \in { <<ColorCount("red", 7), ColorCount("green", 6), ColorCount("blue", 8)>>,
                         <<ColorCount("red", 13)>> } },
             MaxGames)

InitMain ==
    /\ \/ IsOneGameList(games)
       \/ games \in ManyGameLists \cup {SampleGames}
    /\ overflow_checks \in BOOLEAN
    /\ mpc = "idle"
    /\ gi = 0 /\ ri = 0 /\ ei = 0
    /\ total = 0
    /\ total_power = 0
    /\ tally = Zero
    /\ maxima = Zero
    /\ verdicts = << >>
    /\ powers = << >>
    /\ d2input = << >>
    /\ d2li = 0
    /\ d2pc = "off"
    /\ number = << >>
    /\ npc = "off"
    /\ ni = 0
    /\ border = {}
    /\ value = U32(0)
    /\ GridIdle
    /\ Day1Idle
    /\ ParseDataIdle

NextMain ==
    \/ StartFeasibleFold /\ UNCHANGED <<numVars, gridVars, day1Vars, pdVars, d2pVars>>
    \/ FeasibleEntry /\ UNCHANGED <<numVars, gridVars, day1Vars, pdVars, d2pVars>>
    \/ FeasibleRoundEnd /\ UNCHANGED <<numVars, gridVars, day1Vars, pdVars, d2pVars>>
    \/ FeasibleGameEnd /\ UNCHANGED <<numVars, gridVars, day1Vars, pdVars, d2pVars>>
    \/ StartPowerFold /\ UNCHANGED <<numVars, gridVars, day1Vars, pdVars, d2pVars>>
    \/ PowerEntry /\ UNCHANGED <<numVars, gridVars, day1Vars, pdVars, d2pVars>>
    \/ PowerRoundEnd /\ UNCHANGED <<numVars, gridVars, day1Vars, pdVars, d2pVars>>
    \/ PowerGameEnd /\ UNCHANGED <<numVars, gridVars, day1Vars, pdVars, d2pVars>>
    \/ EndPowerFold /\ UNCHANGED <<numVars, gridVars, day1Vars, pdVars, d2pVars>>

SpecMain == InitMain /\ [][NextMain]_vars

(***************************************************************************)
(* SpecGames: the Day-2 parse_data on every list of lines of the bounded   *)
(* family.                                                                 *)
(***************************************************************************)
\* "Game 1: 3 blue, 4 red; 2 green", a line of ../test-1.txt shortened.
GameLine ==
    <<"G", "a", "m", "e", " ", "1", ":", " ", "3", " ", "b", "l", "u", "e", ",", " ", "4", " ", "r", "e", "d", ";", " ", "2", " ", "g", "r", "e", "e", "n">>

\* Every prefix of GameLine (a line cut anywhere), and lines with a longer
\* id, wider blanks, an unknown colour, a lower-case keyword, chars after
\* the last colour and a separator without its blank.
GameLines ==
    {SubSeq(GameLine, 1, n) : n \in 0..Len(GameLine)} \cup
    { <<"G", "a", "m", "e", " ", "1", "2", ":", " ", "1", " ", "r", "e", "d">>,
      <<"G", "a", "m", "e", " ", "2", ":", " ", "1", "0", " ", " ", "g", "r", "e", "e", "n">>,
      <<"G", "a", "m", "e", " ", "2", ":", " ", "1", "\t", "r", "e", "d">>,
      <<"G", "a", "m", "e", " ", "3", ":", " ", "1", " ", "r", "e", "d", ",", " ", "2", " ", "p", "u", "r", "p", "l", "e">>,
      <<"g", "a", "m", "e", " ", "1", ":", " ", "1", " ", "r", "e", "d">>,
      <<"G", "a", "m", "e", " ", "1", ":", " ", "1", " ", "r", "e", "d", "x">>,
      <<"G", "a", "m", "e", " ", "0", "0", "7", ":", " ", "1", " ", "r", "e", "d">>,
      <<"G", "a", "m", "e", " ", "4", ":", " ", "1", " ", "r", "e", "d", ";", "2", " ", "b", "l", "u", "e">> }

InitGames ==
    /\ d2input \in SeqsUpTo(GameLines, MaxLines)
    /\ d2li = 0
    /\ d2pc = "idle"
    /\ games = << >>
    /\ mpc = "off"
    /\ gi = 0 /\ ri = 0 /\ ei = 0
    /\ total = 0
    /\ total_power = 0
    /\ tally = Zero
    /\ maxima = Zero
    /\ verdicts = << >>
    /\ powers = << >>
    /\ NumIdle
    /\ GridIdle
    /\ Day1Idle
    /\ ParseDataIdle

NextGames ==
    \/ CallDay2ParseData /\ UNCHANGED <<numVars, gridVars, day1Vars, pdVars>>
    \/ Day2ParseLine /\ UNCHANGED <<numVars, gridVars, day1Vars, pdVars>>
    \/ Day2ParseDataReturn /\ UNCHANGED <<numVars, gridVars, day1Vars, pdVars>>

SpecGames == InitGames /\ [][NextGames]_vars

(***************************************************************************)
(* Claims about Number::border (checked under SpecBorder).                 *)
(***************************************************************************)
NumLen    == Len(number)
NumRow    == number[1].position.row
FirstCol  == number[1].position.col
LastCol   == number[NumLen].position.col
OwnCells  == {number[k].position : k \in 1..NumLen}

\* The cells of the rectangle rows r-1..r+1, columns c0-1..c1+1 around the
\* Number, minus the Number's own cells, with r-1 and c0-1 the integers they
\* are (a cell left of column 0 or above row 0 has a negative coordinate).
BoundingBoxBorder ==
    {Position(rr, cc) : rr \in (NumRow - 1)..(NumRow + 1),
                        cc \in (FirstCol - 1)..(LastCol + 1)} \ OwnCells

\* The whole rectangle has coordinates >= 0: the Number is off the top row
\* and the left column, and no subtraction of border() overflows.
BoxInCoordinates == NumRow >= 1 /\ FirstCol >= 1

\* C1: for every Number on columns c0..c1 of row r (c0 = c1 included),
\* border() returns exactly the rectangle rows r-1..r+1, columns c0-1..c1+1
\* minus the Number's own cells.  Stated for the Numbers off the top row and
\* the left column, where r-1 and c0-1 are coordinates.
C1_BorderIsBoundingBoxBorder ==
    (npc = "border_done" /\ BoxInCoordinates) => border = BoundingBoxBorder

\* The 8 positions (r+dr, c+dc), dr, dc in {-1,0,1}, (dr,dc) /= (0,0).
EightNeighbourhood(p) ==
    {Position(p.row + dr, p.col + dc) : dr \in {-1, 0, 1}, dc \in {-1, 0, 1}}
        \ {p}

\* C2: for a Number of exactly one Numeral at (r,c), r >= 1 and c >= 1,
\* border() returns the full 8-neighbourhood of that cell.
C2_SingleNumeralFullNeighbourhood ==
    (npc = "border_done" /\ NumLen = 1 /\ NumRow >= 1 /\ FirstCol >= 1)
        => border = EightNeighbourhood(number[1].position)

\* The cells the claim lists, written with plain integer arithmetic.
LeftFive(p) ==
    {Position(p.row - 1, p.col), Position(p.row + 1, p.col),
     Position(p.row - 1, p.col - 1), Position(p.row + 1, p.col - 1),
     Position(p.row, p.col - 1)}
RightFive(p) ==
    {Position(p.row - 1, p.col), Position(p.row + 1, p.col),
     Position(p.row - 1, p.col + 1), Position(p.row + 1, p.col + 1),
     Position(p.row, p.col + 1)}
AboveBelow(p) == {Position(p.row - 1, p.col), Position(p.row + 1, p.col)}

ListedCells ==
    LeftFive(number[1].position) \cup RightFive(number[NumLen].position)
        \cup UNION {AboveBelow(number[k].position) : k \in 2..(NumLen - 1)}

\* C3: for a Number of k >= 2 Numerals on row r >= 1 starting at column
\* c0 >= 1, the call of border() returns (it does not fail), and the set it
\* returns is the five left-hand cells of the first Numeral, the mirrored five
\* of the last Numeral and the cells directly above and below each interior
\* Numeral; it has exactly 2k+6 positions and none of the Number's own cells.
C3_MultiNumeralBorder ==
    (npc \in {"border_done", "panic"} /\ NumLen >= 2 /\ NumRow >= 1 /\ FirstCol >= 1)
        => /\ npc = "border_done"
           /\ border = ListedCells
           /\ Cardinality(border) = 2 * NumLen + 6
           /\ border \cap OwnCells = {}

\* The Number of tests::test_border (five Numerals at row 2, columns 3..7):
\* its border has 16 positions.
C3_Witness ==
    /\ npc = "border_done"
    /\ number = NumberAt(TestRow, TestCol, TestDigits)
    /\ Cardinality(border) = 16

(***************************************************************************)
(* Claims about Number::value (checked under SpecValue).                   *)
(***************************************************************************)
\* x divided by 10: quotient and remainder.
DivMod10(x) ==
    LET t == (x.hi % 10) * Limb + x.lo
    IN  [q |-> [hi |-> x.hi \div 10, lo |-> t \div 10], r |-> t % 10]

RECURSIVE LowDecimalDigits(_, _)
\* The k low decimal digits of x, most significant first.
LowDecimalDigits(x, k) ==
    IF k = 0 THEN << >>
    ELSE Append(LowDecimalDigits(DivMod10(x).q, k - 1), DivMod10(x).r)

RECURSIVE DropDecimalDigits(_, _)
\* x divided by 10^k.
DropDecimalDigits(x, k) ==
    IF k = 0 THEN x ELSE DropDecimalDigits(DivMod10(x).q, k - 1)

\* x is the integer written by the digits ds (leading zeros allowed).
ReadsAs(x, ds) ==
    /\ LowDecimalDigits(x, Len(ds)) = ds
    /\ DropDecimalDigits(x, Len(ds)) = U32(0)

NumDigits == [k \in 1..NumLen |-> number[k].value]

\* u32::MAX = 4294967295, digit by digit.
U32MaxDigits == <<4, 2, 9, 4, 9, 6, 7, 2, 9, 5>>

\* a <= b for two digit sequences of one length.
LexLeq(a, b) ==
    \/ a = b
    \/ \E j \in 1..Len(a) : a[j] < b[j] /\ \A m \in 1..(j - 1) : a[m] = b[m]

\* ds has at most ten digits and writes an integer <= u32::MAX.
FitsU32(ds) ==
    /\ Len(ds) <= Len(U32MaxDigits)
    /\ LexLeq([j \in 1..(Len(U32MaxDigits) - Len(ds)) |-> 0] \o ds, U32MaxDigits)

\* C4 as stated: for every Number (any k >= 1), value() returns the integer
\* formed by reading its digits in order.
C4_ValueReadsDigits ==
    npc = "value_done" => ReadsAs(value, NumDigits)

\* C4, amended: for every Number of k <= 10 digits that write an integer
\* <= u32::MAX = 4294967295 (every Number of up to 9 digits among them), the
\* call of value() returns, in a debug and in a release build, the integer
\* formed by reading its digits in order.
C4_ValueReadsDigitsWithinU32 ==
    (npc \in {"value_done", "panic"} /\ FitsU32(NumDigits))
        => (npc = "value_done" /\ ReadsAs(value, NumDigits))

\* The Number of tests::test_value: digits 4,6,7,8,9 give 46789.
C4_Witness ==
    /\ npc = "value_done"
    /\ NumDigits = TestDigits
    /\ value = U32(46789)

(***************************************************************************)
(* Claims about parse_numbers and parse_symbols (checked under SpecGrid).  *)
(***************************************************************************)
\* The cells of the grid, and its cells that hold a decimal digit.
Cells      == {Position(r, c) : r \in 0..(Len(input) - 1), c \in 0..MaxInput}
CharAt(p)  == input[p.row + 1][p.col + 1]
InGrid(p)  == /\ p.row >= 0 /\ p.row < Len(input)
              /\ p.col >= 0 /\ p.col < Len(input[p.row + 1])
GridCells  == {p \in Cells : InGrid(p)}
DigitChar(ch) == ch \in {"0", "1", "2", "3", "4", "5", "6", "7", "8", "9"}
DigitCells == {p \in GridCells : DigitChar(CharAt(p))}

\* p comes before q in the row-major scan.
RowMajorBefore(p, q) == p.row < q.row \/ (p.row = q.row /\ p.col < q.col)

\* The places <<k, j>> of the returned Numbers that hold the cell p.
PlacesOf(p) ==
    {kj \in {<<k, j>> : k \in 1..Len(numbers), j \in 1..MaxInput} :
        /\ kj[2] <= Len(numbers[kj[1]])
        /\ numbers[kj[1]][kj[2]].position = p}

\* C5: parse_numbers seals the pending buffer at every non-digit character and
\* at every end of row: the buffer is empty at the start of each row (and when
\* the scan ends), every digit cell of the grid belongs to exactly one
\* returned Number (also a run that ends at the end of its row), every
\* Numeral of a returned Number is a digit cell, and the Numbers are returned
\* in row-major order of their first digit.
C5_SealedAtNonDigitAndEndOfRow ==
    /\ (gpc = "numbers" /\ col = 0) => current_number = << >>
    /\ gpc = "numbers_done" =>
          /\ current_number = << >>
          /\ \A p \in DigitCells : Cardinality(PlacesOf(p)) = 1
          /\ \A k \in 1..Len(numbers) : \A j \in 1..Len(numbers[k]) :
                 numbers[k][j].position \in DigitCells
          /\ \A k \in 1..Len(numbers) : \A l \in 1..Len(numbers) :
                 k < l => /\ numbers[k] /= << >>
                          /\ numbers[l] /= << >>
                          /\ RowMajorBefore(numbers[k][1].position,
                                            numbers[l][1].position)

\* A row that ends in a digit run is followed by a row that starts with a
\* digit, and parse_numbers has returned one Number for each.
C5_Witness ==
    /\ gpc = "numbers_done"
    /\ input = << <<".", "7">>, <<"7">> >>
    /\ Len(numbers) = 2

\* C6: every Number returned by parse_numbers is non-empty, has all its
\* Numerals on one row at columns that go up by exactly 1, and is maximal: the
\* cell left of its first Numeral and the cell right of its last Numeral are
\* outside the row or hold a non-digit character.
C6_NumbersAreMaximalRuns ==
    gpc = "numbers_done" =>
        \A k \in 1..Len(numbers) :
            LET n     == numbers[k]
                left  == Position(n[1].position.row, n[1].position.col - 1)
                right == Position(n[Len(n)].position.row, n[Len(n)].position.col + 1)
            IN  /\ Len(n) >= 1
                /\ \A j \in 1..Len(n) : n[j].position.row = n[1].position.row
                /\ \A j \in 1..(Len(n) - 1) :
                       n[j + 1].position.col = n[j].position.col + 1
                /\ ~InGrid(left) \/ ~DigitChar(CharAt(left))
                /\ ~InGrid(right) \/ ~DigitChar(CharAt(right))

\* A Number of two Numerals with a non-digit on its left and on its right.
C6_Witness ==
    /\ gpc = "numbers_done"
    /\ Len(input) = 1
    /\ input[1] = <<".", "7", "7", "*">>
    /\ numbers = << NumberAt(0, 1, <<7, 7>>) >>

\* C7: parse_symbols returns, in row-major scan order and without omission or
\* duplication, exactly the positions of the cells that hold '*', '$', '+' or
\* '#'; a cell that holds '.', a digit or any other character gives no entry.
C7_SymbolsAreTheMarkerCells ==
    gpc = "symbols_done" =>
        /\ {symbols[k] : k \in 1..Len(symbols)}
               = {p \in GridCells : CharAt(p) \in {"*", "$", "+", "#"}}
        /\ \A k \in 1..Len(symbols) : \A l \in 1..Len(symbols) :
               k < l => RowMajorBefore(symbols[k], symbols[l])

\* Two rows with a marker each, the first behind a digit: the two markers
\* are returned, in scan order.
C7_Witness ==
    /\ gpc = "symbols_done"
    /\ input = << <<"7", "#">>, <<"+">> >>
    /\ symbols = <<Position(0, 1), Position(1, 0)>>

(***************************************************************************)
(* Claims about replace_strings (checked under SpecDay1).                  *)
(***************************************************************************)
\* The words one..nine; the word at index d is written as the numeral d.
DigitWords ==
    << <<"o", "n", "e">>,
       <<"t", "w", "o">>,
       <<"t", "h", "r", "e", "e">>,
       <<"f", "o", "u", "r">>,
       <<"f", "i", "v", "e">>,
       <<"s", "i", "x">>,
       <<"s", "e", "v", "e", "n">>,
       <<"e", "i", "g", "h", "t">>,
       <<"n", "i", "n", "e">> >>
Numerals == <<"1", "2", "3", "4", "5", "6", "7", "8", "9">>
DigitChars == {"0", "1", "2", "3", "4", "5", "6", "7", "8", "9"}

\* The word w begins at the start position p of str.
BeginsAt(str, p, w) ==
    /\ p + Len(w) - 1 <= Len(str)
    /\ \A j \in 1..Len(w) : str[p + j - 1] = w[j]

\* What the start position p of str emits: the char itself when it is a
\* digit, the numeral of a word that begins there, nothing otherwise.
Emitted(str, p) ==
    IF str[p] \in DigitChars THEN <<str[p]>>
    ELSE IF \E d \in 1..Len(DigitWords) : BeginsAt(str, p, DigitWords[d])
         THEN <<Numerals[CHOOSE d \in 1..Len(DigitWords) : BeginsAt(str, p, DigitWords[d])]>>
         ELSE << >>

RECURSIVE EmittedUpTo(_, _)
\* The emissions of the start positions 1..p, left to right.
EmittedUpTo(str, p) ==
    IF p = 0 THEN << >> ELSE EmittedUpTo(str, p - 1) \o Emitted(str, p)

\* C8: for every input line, the string replace_strings returns is exactly
\* the one obtained by visiting each start position from left to right and
\* emitting the char itself when it is an ASCII digit, or the numeral 1..9
\* when one of the words one..nine begins there: every occurrence of a word
\* is converted, also one that overlaps the word before it by a letter, and
\* the cursor advance of word length minus one skips none.
C8_EveryStartPositionConverted ==
    rpc = "done" => result = EmittedUpTo(line, Len(line))

\* "xtwone3four" gives "2134": "one" starts on the last letter of "two".
C8_Witness ==
    /\ rpc = "done"
    /\ line = <<"x", "t", "w", "o", "n", "e", "3", "f", "o", "u", "r">>
    /\ result = <<"2", "1", "3", "4">>

RECURSIVE IsSubsequence(_, _)
\* The chars of a appear in b, in the order of a.
IsSubsequence(a, b) ==
    IF a = << >> THEN TRUE
    ELSE IF b = << >> THEN FALSE
    ELSE IF Head(a) = Head(b) THEN IsSubsequence(Tail(a), Tail(b))
    ELSE IsSubsequence(a, Tail(b))

\* The digit chars of the line, in order.
DigitsOf(str) == SelectSeq(str, LAMBDA ch : ch \in DigitChars)

\* C9: every ASCII digit char of the input appears in the output of
\* replace_strings, in the order of the input (the input's digit chars are a
\* subsequence of the output), and the output holds digits only.
C9_DigitsPreserved ==
    rpc = "done" =>
        /\ IsSubsequence(DigitsOf(line), result)
        /\ \A k \in 1..Len(result) : result[k] \in DigitChars

\* "f47ninexfqsbdrseventwo7twonep" gives "47972721": its digits 4, 7, 7 are
\* in the output, in their order, among the numerals of its words.
C9_Witness ==
    /\ rpc = "done"
    /\ line \in TestLines
    /\ DigitsOf(line) = <<"4", "7", "7">>
    /\ result = <<"4", "7", "9", "7", "2", "7", "2", "1">>

\* C10: the result of replace_strings does not depend on the order in which
\* the nine words are tried: at most one entry of the map matches at any
\* cursor position, and two calls on one line, each trying the entries in an
\* order of its own, end alike (both return, the same string, or both fail).
C10_OrderIndependent ==
    /\ (rpc = "loop" /\ i < ByteLen(line) /\ IsCharBoundary(line, i))
          => Cardinality(Matching) <= 1
    /\ (call = 2 /\ rpc \in {"done", "panic"})
          => (first.pc = rpc /\ first.result = result)

\* Both calls have returned "21" for "twone".
C10_Witness ==
    /\ call = 2
    /\ rpc = "done"
    /\ line = <<"t", "w", "o", "n", "e">>
    /\ first = [pc |-> "done", result |-> <<"2", "1">>]
    /\ result = <<"2", "1">>

\* C11: replace_strings is total: for every input string, of any characters,
\* the scan never fails, and the cursor never exceeds the line's length (so
\* the loop ends and a string is returned).
C11_ReplaceStringsTotal ==
    /\ rpc /= "panic"
    /\ i <= ByteLen(line)

\* C11 on the lines of ASCII chars: the scan does not fail and the cursor
\* stays within the line.
C11_TotalOnAscii ==
    (\A k \in 1..Len(line) : CharLen(line[k]) = 1)
        => (rpc /= "panic" /\ i <= ByteLen(line))

\* C15 as stated: border() fails for every Number on row 0 or with its first
\* Numeral at column 0, and returns a set only when row >= 1 and first
\* column >= 1.
C15_BorderFailsAtTopAndLeftEdge ==
    /\ npc = "border_done" => (NumRow >= 1 /\ FirstCol >= 1)
    /\ (npc \in {"border_done", "panic"} /\ (NumRow = 0 \/ FirstCol = 0))
          => npc = "panic"

\* The cells of the returned set with a coordinate that wrapped.
WrappedCells == {p \in border : p.row = USIZE_MAX \/ p.col = USIZE_MAX}

\* C15, amended: in a build with overflow checks (the debug profile) border()
\* fails for every Number on row 0 or with its first Numeral at column 0, and
\* returns a set only when row >= 1 and first column >= 1; in a build without
\* them (the release profile) it never fails, and for such a Number returns a
\* set that holds cells whose row or column is usize::MAX.
C15_BorderFailsAtEdgeInCheckedBuild ==
    /\ overflow_checks => C15_BorderFailsAtTopAndLeftEdge
    /\ ~overflow_checks =>
          /\ npc /= "panic"
          /\ npc = "border_done" => (WrappedCells /= {} <=> (NumRow = 0 \/ FirstCol = 0))

\* A Number on row 1 whose first Numeral is at column 0: the checked build
\* has failed on col - 1.
C15_Witness ==
    /\ npc = "panic"
    /\ overflow_checks
    /\ NumRow = 1
    /\ FirstCol = 0
    /\ NumLen = 2

(***************************************************************************)
(* Claims about the Day-1 parse_data                                       *)
(***************************************************************************)
\* The normalized string of a line of ASCII chars.
Normalized(str) == EmittedUpTo(str, Len(str))

\* The number a digit char stands for.
DigitValue(ch) ==
    CHOOSE d \in 0..9 : <<"0", "1", "2", "3", "4", "5", "6", "7", "8", "9">>[d + 1] = ch

\* 10 * first_digit + last_digit of a non-empty string of digits.
PuzzleValue(digits) == 10 * DigitValue(digits[1]) + DigitValue(digits[Len(digits)])

\* C12: the Day-1 parse_data emits, at the index of each input line, the
\* value 10 * first_digit + last_digit of the line's non-empty normalized
\* string, a single digit serving as both; the list it returns has one value
\* per input line, in input order.
C12_ValuePerLine ==
    /\ \A k \in 1..Len(pd_result) :
           /\ k <= Len(data)
           /\ Normalized(data[k]) /= << >>
           /\ pd_result[k] = PuzzleValue(Normalized(data[k]))
    /\ dpc \in {"iter", "replace"} => Len(pd_result) = dli
    /\ dpc = "done" => Len(pd_result) = Len(data)

\* "treb7uchet" gives 77 and, after it, "two1nine" gives 29.
C12_Witness ==
    /\ dpc = "done"
    /\ data = << <<"t", "r", "e", "b", "7", "u", "c", "h", "e", "t">>,
                 <<"t", "w", "o", "1", "n", "i", "n", "e">> >>
    /\ pd_result = <<77, 29>>

\* The line holds neither an ASCII digit nor one of the words one..nine.
NoDigitNorWord(str) ==
    \A p \in 1..Len(str) :
        /\ str[p] \notin DigitChars
        /\ \A d \in 1..Len(DigitWords) : ~BeginsAt(str, p, DigitWords[d])

AllAscii(str) == \A k \in 1..Len(str) : CharLen(str[k]) = 1

\* C16: the Day-1 parse_data aborts, returning no list, as soon as it meets
\* a line holding neither an ASCII digit nor one of the words one..nine: it
\* never goes past such a line, never returns when the input has one, and
\* the values of the lines before it are not reported.
C16_AbortsOnEmptyNormalization ==
    /\ dpc \in {"iter", "replace", "done", "panic"} =>
           \A k \in 1..dli : ~NoDigitNorWord(data[k])
    /\ dpc = "panic" =>
           /\ pd_result = << >>
           /\ dli < Len(data)
           /\ AllAscii(data[dli + 1]) => NoDigitNorWord(data[dli + 1])

\* "1abc2" is processed, then "x" aborts parse_data: the 12 is not reported.
C16_Witness ==
    /\ dpc = "panic"
    /\ data = << <<"1", "a", "b", "c", "2">>, <<"x">> >>
    /\ dli = 1
    /\ pd_result = << >>

(***************************************************************************)
(* Claims about is_feasible, get_power and the folds of the Day-2 main     *)
(***************************************************************************)
\* Exact natural numbers, for totals that may pass usize::MAX: the number
\* wraps * 2^64 + rest, with rest within a few thousand of 0.
Exact(n) == [wraps |-> IF n < 0 THEN 1 ELSE 0, rest |-> n]
Plus(x, y) == [wraps |-> x.wraps + y.wraps, rest |-> x.rest + y.rest]
\* x is at most the small number n.
AtMost(x, n) == x.wraps = 0 /\ x.rest <= n
\* x is at most usize::MAX.
Fits(x) == (x.wraps = 0 /\ x.rest >= 0) \/ (x.wraps = 1 /\ x.rest < 0)
Larger(x, y) ==
    IF x.wraps > y.wraps \/ (x.wraps = y.wraps /\ x.rest >= y.rest) THEN x ELSE y
\* The usize n is the exact number x.
Is(n, x) == Fits(x) /\ n = x.rest

\* A number above usize::MAX, standing for every product that passes it.
TooLarge == [wraps |-> 2, rest |-> 0]
\* The exact product when it is at most usize::MAX, TooLarge otherwise: a
\* factor of 2^64 - rest or more times a factor of 2 or more passes it.
Times(x, y) ==
    IF x = Exact(0) \/ y = Exact(0) THEN Exact(0)
    ELSE IF x.wraps = 0 /\ y.wraps = 0 THEN Exact(x.rest * y.rest)
    ELSE IF x = Exact(1) THEN y
    ELSE IF y = Exact(1) THEN x
    ELSE TooLarge

RECURSIVE RoundTotal(_, _)
\* The total of the colour in the round: the sum of its entries' counts.
RoundTotal(round, c) ==
    IF round = << >> THEN Exact(0)
    ELSE Plus(RoundTotal(Tail(round), c),
              IF Head(round).color = c THEN Exact(Head(round).count) ELSE Exact(0))

\* Every round of the game is within the three limits.
WithinAllLimits(game) ==
    \A r \in 1..Len(game.rounds) :
        /\ AtMost(RoundTotal(game.rounds[r], "blue"), 14)
        /\ AtMost(RoundTotal(game.rounds[r], "green"), 13)
        /\ AtMost(RoundTotal(game.rounds[r], "red"), 12)

\* The same, on the totals modulo 2^64.
WithinAllLimitsModulo(game) ==
    \A r \in 1..Len(game.rounds) :
        /\ RoundTotal(game.rounds[r], "blue").rest \in 0..14
        /\ RoundTotal(game.rounds[r], "green").rest \in 0..13
        /\ RoundTotal(game.rounds[r], "red").rest \in 0..12

\* No total of the first n rounds of the game passes usize::MAX.
TotalsFit(game, n) ==
    \A r \in 1..n : \A c \in {"blue", "green", "red"} :
        Fits(RoundTotal(game.rounds[r], c))

RECURSIVE FeasibleIdSum(_)
\* The sum of the ids of the games within all limits, of the first n games.
FeasibleIdSum(n) ==
    IF n = 0 THEN Exact(0)
    ELSE Plus(FeasibleIdSum(n - 1),
              IF WithinAllLimits(games[n]) THEN Exact(games[n].id) ELSE Exact(0))

\* C14 as stated: is_feasible(game) is true exactly when every round's total
\* of blue is <= 14, of green <= 13 and of red <= 12, and the puzzle total is
\* the sum of the ids of exactly those games.
C14_FeasibleIffWithinLimits ==
    /\ \A k \in 1..Len(verdicts) : verdicts[k] = WithinAllLimits(games[k])
    /\ mpc \in {"power", "done"} => Is(total, FeasibleIdSum(Len(games)))

\* C14, amended: as stated, for games whose round totals are at most
\* usize::MAX and a sum of ids at most usize::MAX.  Past usize::MAX only a
\* build with overflow checks fails; a build without them decides on the
\* totals modulo 2^64.
C14_FeasibleIffWithinLimitsOfUsize ==
    /\ \A k \in 1..Len(verdicts) :
           /\ TotalsFit(games[k], Len(games[k].rounds)) =>
                  verdicts[k] = WithinAllLimits(games[k])
           /\ ~overflow_checks => verdicts[k] = WithinAllLimitsModulo(games[k])
    /\ (/\ mpc \in {"power", "done"}
        /\ \A k \in 1..Len(games) : TotalsFit(games[k], Len(games[k].rounds))
        /\ Fits(FeasibleIdSum(Len(games))))
           => Is(total, FeasibleIdSum(Len(games)))
    /\ mpc = "panic" => overflow_checks

\* The five sample games: 1, 2 and 5 are feasible, the total is 8.
C14_Witness ==
    /\ mpc = "done"
    /\ games = SampleGames
    /\ verdicts = <<TRUE, TRUE, FALSE, FALSE, TRUE>>
    /\ total = 8

RECURSIVE MaxTotal(_, _, _)
\* The largest total of the colour in the first n rounds of the game.
MaxTotal(game, c, n) ==
    IF n = 0 THEN Exact(0)
    ELSE Larger(MaxTotal(game, c, n - 1), RoundTotal(game.rounds[n], c))

\* The product of the three largest totals of the game.
PowerOf(game) ==
    LET n == Len(game.rounds)
    IN  Times(Times(MaxTotal(game, "blue", n), MaxTotal(game, "green", n)),
              MaxTotal(game, "red", n))

\* blue_max * green_max is at most usize::MAX, and so is the whole product.
ProductsFit(game) ==
    LET n == Len(game.rounds)
    IN  /\ Fits(Times(MaxTotal(game, "blue", n), MaxTotal(game, "green", n)))
        /\ Fits(PowerOf(game))

\* The colour is in no round of the game.
Absent(game, c) ==
    \A r \in 1..Len(game.rounds) : \A e \in 1..Len(game.rounds[r]) :
        game.rounds[r][e].color /= c

\* get_power is between two rounds of the game it is at.
BetweenRounds == mpc = "power" /\ gi < Len(games) /\ ei = 0

\* C17 as stated: get_power(game) is the product of the largest round totals
\* of the three colours; the running maximum taken after each entry is, at
\* the end of each round, the largest of the finished round totals; and the
\* power is 0 when some colour is in no round.
C17_PowerIsProductOfMaxima ==
    /\ \A k \in 1..Len(powers) :
           /\ Is(powers[k], PowerOf(games[k]))
           /\ (\E c \in {"blue", "green", "red"} : Absent(games[k], c)) => powers[k] = 0
    /\ BetweenRounds =>
           \A c \in {"blue", "green", "red"} : Is(maxima[c], MaxTotal(CurrentGame, c, ri))

\* C17, amended: as stated, for games whose round totals, blue_max *
\* green_max and power are at most usize::MAX.  Past usize::MAX only a build
\* with overflow checks fails; in a build without them the power of a game in
\* which some colour is absent is still 0.
C17_PowerIsProductOfMaximaOfUsize ==
    /\ \A k \in 1..Len(powers) :
           /\ (TotalsFit(games[k], Len(games[k].rounds)) /\ ProductsFit(games[k]))
                  => Is(powers[k], PowerOf(games[k]))
           /\ (\E c \in {"blue", "green", "red"} : Absent(games[k], c)) => powers[k] = 0
    /\ (BetweenRounds /\ TotalsFit(CurrentGame, ri)) =>
           \A c \in {"blue", "green", "red"} : Is(maxima[c], MaxTotal(CurrentGame, c, ri))
    /\ mpc = "panic" => overflow_checks

\* The five sample games: the powers are 48, 12, 1560, 630 and 36; in game 1
\* the largest red is the 4 of the first round, not the 1 of the second.
C17_Witness ==
    /\ mpc = "done"
    /\ games = SampleGames
    /\ powers = <<48, 12, 1560, 630, 36>>
    /\ total_power = 2286

(***************************************************************************)
(* Claims about the Day-2 parse_data                                       *)
(***************************************************************************)
\* The first position at which sep begins in str, 0 when there is none.
FirstAt(str, sep) ==
    IF \E p \in 1..Len(str) : BeginsAt(str, p, sep)
    THEN CHOOSE p \in 1..Len(str) :
             BeginsAt(str, p, sep) /\ \A m \in 1..(p - 1) : ~BeginsAt(str, m, sep)
    ELSE 0

RECURSIVE SplitOn(_, _)
\* The pieces of str between the occurrences of sep.
SplitOn(str, sep) ==
    LET p == FirstAt(str, sep)
    IN  IF p = 0 THEN <<str>>
        ELSE <<SubSeq(str, 1, p - 1)>> \o SplitOn(SubSeq(str, p + Len(sep), Len(str)), sep)

\* A non-empty string of digits.
IsCount(str) == str /= << >> /\ \A k \in 1..Len(str) : str[k] \in DigitChars

RECURSIVE CountOf(_)
\* The number the digits read as.
CountOf(str) ==
    IF str = << >> THEN 0
    ELSE 10 * CountOf(SubSeq(str, 1, Len(str) - 1)) + DigitValue(str[Len(str)])

ColourWords ==
    { <<"b", "l", "u", "e">>, <<"g", "r", "e", "e", "n">>, <<"r", "e", "d">> }
ColourOf(word) ==
    IF word = <<"b", "l", "u", "e">> THEN "blue"
    ELSE IF word = <<"r", "e", "d">> THEN "red" ELSE "green"

\* The first position of a blank (a space or a tab) in str, 0 when there is
\* none, and the first position after the blanks that begin there.
FirstBlank(str) ==
    IF \E p \in 1..Len(str) : str[p] \in {" ", "\t"}
    THEN CHOOSE p \in 1..Len(str) :
             str[p] \in {" ", "\t"} /\ \A m \in 1..(p - 1) : str[m] \notin {" ", "\t"}
    ELSE 0
AfterBlanks(str) ==
    CHOOSE p \in (FirstBlank(str) + 1)..(Len(str) + 1) :
        /\ \A m \in FirstBlank(str)..(p - 1) : str[m] \in {" ", "\t"}
        /\ p <= Len(str) => str[p] \notin {" ", "\t"}

\* '<count> <colour>', the blank between the two read as one or more blanks.
IsEntry(str) ==
    /\ FirstBlank(str) > 0
    /\ IsCount(SubSeq(str, 1, FirstBlank(str) - 1))
    /\ SubSeq(str, AfterBlanks(str), Len(str)) \in ColourWords
EntryOf(str) ==
    ColorCount(ColourOf(SubSeq(str, AfterBlanks(str), Len(str))),
               CountOf(SubSeq(str, 1, FirstBlank(str) - 1)))

\* The line on the two sides of its first ": ".
HeadOf(str) == SubSeq(str, 1, FirstAt(str, <<":", " ">>) - 1)
BodyOf(str) == SubSeq(str, FirstAt(str, <<":", " ">>) + 2, Len(str))
RoundsIn(str) == SplitOn(BodyOf(str), <<";", " ">>)
EntriesIn(round) == SplitOn(round, <<",", " ">>)

\* The whole line is 'Game <id>: <round>(; <round>)*' with
\* <round> = '<count> <colour>(, <count> <colour>)*'.
MatchesGrammar(str) ==
    /\ FirstAt(str, <<":", " ">>) > 0
    /\ BeginsAt(HeadOf(str), 1, <<"G", "a", "m", "e", " ">>)
    /\ IsCount(SubSeq(HeadOf(str), 6, Len(HeadOf(str))))
    /\ \A r \in 1..Len(RoundsIn(str)) :
           \A e \in 1..Len(EntriesIn(RoundsIn(str)[r])) :
               IsEntry(EntriesIn(RoundsIn(str)[r])[e])

\* The Game a line of the grammar stands for.
GameOf(str) ==
    Game(CountOf(SubSeq(HeadOf(str), 6, Len(HeadOf(str)))),
         [r \in 1..Len(RoundsIn(str)) |->
             [e \in 1..Len(EntriesIn(RoundsIn(str)[r])) |->
                 EntryOf(EntriesIn(RoundsIn(str)[r])[e])]])

\* C13: a line that fails to parse is fatal and nothing partial is reported:
\* parse_data either aborts, or returns one Game per input line, each Game
\* standing for the whole of its line under the grammar; no Game is built
\* from a prefix of a line whose remainder does not match the grammar.
C13_EveryGameIsItsWholeLine ==
    /\ \A k \in 1..Len(games) :
           /\ MatchesGrammar(d2input[k])
           /\ games[k] = GameOf(d2input[k])
    /\ d2pc = "done" => Len(games) = Len(d2input)
    /\ d2pc = "panic" => games = << >>

\* C13 on the lines of the grammar: each is parsed to the Game it stands
\* for, and parse_data aborts only on a line that is not of the grammar.
C13_LinesOfTheGrammarParsed ==
    /\ \A k \in 1..Len(games) :
           MatchesGrammar(d2input[k]) => games[k] = GameOf(d2input[k])
    /\ d2pc = "done" => Len(games) = Len(d2input)
    /\ d2pc = "panic" => (games = << >> /\ ~MatchesGrammar(d2input[d2li + 1]))

====
